---- MODULE Spec2Model ----
(***************************************************************************)
(* Model of the session cache of services/session_service.py               *)
(* (SessionService.get_session, an OrderedDict used as an LRU cache) and   *)
(* of the batch wrappers around it in scripts/cache_f1_data.py and         *)
(* scripts/update_f1_data.py.                                              *)
(*                                                                         *)
(* It also models the mini-sector analysis of services/telemetry_service.py *)
(* (MiniSectorAnalyzer and the track dominance functions of                *)
(* TelemetryService).                                                      *)
(*                                                                         *)
(* The specifications share the variables:                                 *)
(*   Spec      - one caller at a time: every get_session call is one step  *)
(*   ConcSpec  - worker threads whose get_session calls interleave between *)
(*               the individual dictionary operations                      *)
(*   BatchSpec - cache_session / update_session retrying get_session       *)
(*   PartSpec  - MiniSectorAnalyzer.create_mini_sectors on one telemetry   *)
(*   DomSpec   - find_fastest_drivers and the track dominance functions on *)
(*               the telemetry of two drivers                              *)
(***************************************************************************)
EXTENDS Integers, Sequences, FiniteSets

\* ---------------------------------------------------------------- bounds
NumKeys == 3
MaxCacheSize == 2
MaxLoads == 4
NumThreads == 2
MaxRetry == 2
MaxTimeout == 2
MaxBatchCalls == 2
MaxSectors == 4
MaxRows == 3
MaxTime == 3
MaxSamples == 6
MaxPoolCalls == 2
MaxSessions == 3
MaxScheduleCalls == 3
MaxTicks == 3

\* The cache keys f"{year}_{race}_{session_type}" the callers ask for.
CacheKeys == 1..NumKeys

\* The worker threads of the ThreadPoolExecutor.
Threads == 1..NumThreads

\* A bundle is named by the provider call that built it; 0 is "no bundle".
NoSession == 0

VARIABLES
    max_cache_size,   \* self._max_cache_size
    session_cache,    \* self._session_cache: OrderedDict, oldest entry first
    fastf1_calls,     \* number of provider loads started so far
    last,             \* the call that returned last: what it was and what it gave
    recency,          \* history: the keys touched so far, least recently touched first
    thread,           \* per worker thread: where it is in get_session, its locals
    returned,         \* per worker thread: how its last get_session call ended
    race,             \* history: two threads missed the same key at the same time
    batch,            \* the running cache_session / update_session call and its locals
    elapsed,          \* time.time() - start_time of the attempt under way
    usage_stats,      \* the module-level usage_stats counters of the scripts
    tel_call,         \* the telemetry operation that was called, "none" before
    num_sectors,      \* MiniSectorAnalyzer.num_sectors
    sector_type,      \* MiniSectorAnalyzer.sector_type
    telemetry,        \* MiniSectorAnalyzer.telemetry: the rows given to the analyzer
    drivers_telemetry_list, \* per driver, the telemetry of the fastest lap
    mini_sectors,     \* what create_mini_sectors gave: status and MiniSector column
    fastest,          \* what find_fastest_drivers gave: status, time_spent, winners
    dominance,        \* what the track dominance function gave: the mini-sectors shown
    requested,        \* the driver codes the caller asked for, in the caller's order
    drivers,          \* `drivers`: the codes worked on, in list order
    unavailable,      \* the drivers whose fastest lap gives no telemetry (the fetch raises)
    response,         \* the last call of a service method through its HTTP route
    workers,          \* per pool thread: where it is in cache_session, its locals
    event,            \* the cache_event / update_event call: its sessions, those done
    color,            \* the last color lookup: what was asked and what it gave
    schedule_cache,   \* ScheduleService.schedule_cache
    now,              \* time.time()
    schedule          \* the get_schedule calls so far: provider calls, and the last one

cacheVars == <<max_cache_size, session_cache, fastf1_calls, last, recency>>
threadVars == <<thread, returned, race>>
batchVars == <<batch, elapsed, usage_stats>>
telVars == <<tel_call, num_sectors, sector_type, telemetry, drivers_telemetry_list,
             mini_sectors, fastest, dominance, requested, drivers, unavailable>>
vars == <<max_cache_size, session_cache, fastf1_calls, last, recency,
          thread, returned, race, batch, elapsed, usage_stats,
          tel_call, num_sectors, sector_type, telemetry, drivers_telemetry_list,
          mini_sectors, fastest, dominance, requested, drivers, unavailable,
          response, workers, event, color, schedule_cache, now, schedule>>
schedVars == <<schedule_cache, now, schedule>>
moreVars == <<response, workers, event, color, schedVars>>

\* ------------------------------------------------- OrderedDict operations
\* The keys of an OrderedDict.
CachedKeys(c) == {c[i].key : i \in 1..Len(c)}

ContainsAlwaysMiss(c, k) == FALSE

\* `cache_key in self._session_cache`
Contains(c, k) == \E i \in 1..Len(c) : c[i].key = k

\* self._session_cache[k], for a key that is present
Lookup(c, k) == c[CHOOSE i \in 1..Len(c) : c[i].key = k].session

\* OrderedDict.pop(k): the dictionary without k, the order of the rest kept
Pop(c, k) == SelectSeq(c, LAMBDA e : e.key # k)

\* OrderedDict.__setitem__: a present key keeps its place, a new key goes last
SetItem(c, k, s) ==
    IF \E i \in 1..Len(c) : c[i].key = k
    THEN [i \in 1..Len(c) |-> IF c[i].key = k THEN [key |-> k, session |-> s] ELSE c[i]]
    ELSE Append(c, [key |-> k, session |-> s])

PopItemLast(c) == SubSeq(c, 1, Len(c) - 1)

\* OrderedDict.popitem(last=False): drops the oldest entry
PopItemFirst(c) == Tail(c)

MoveToEndForgotten(c, k) == c

\* The hit path: pop the key and store it again, which moves it to the end.
MoveToEnd(c, k) == SetItem(Pop(c, k), k, Lookup(c, k))

TooLargeOffByOne(c, m) == Len(c) > m + 1

\* `len(self._session_cache) > self._max_cache_size`
TooLarge(c, m) == Len(c) > m

\* The miss path after a successful load: store, then evict when too large.
AddToCache(c, k, s, m) ==
    LET c1 == SetItem(c, k, s)
    IN  IF TooLarge(c1, m) THEN PopItemFirst(c1) ELSE c1

FailedLoadCached(c, k) == SetItem(c, k, NoSession)

\* The miss path when fastf1.get_session or session.load raises: the
\* exception leaves get_session before anything is stored.
AfterFailedLoad(c, k) == c

\* History: k becomes the most recently touched key.
Touch(r, k) == Append(SelectSeq(r, LAMBDA j : j # k), k)

\* ------------------------------------------------------------------ Init
NoCall == [op |-> "none", key |-> 0, outcome |-> "none", ret |-> NoSession]

CacheInit ==
    /\ max_cache_size \in 1..MaxCacheSize
    /\ session_cache = <<>>
    /\ fastf1_calls = 0
    /\ last = NoCall
    /\ recency = <<>>

\* ------------------------------------------- get_session, one caller
\* get_session(k) when k is cached: lines 46-51.
GetSessionHit(k) ==
    /\ Contains(session_cache, k)
    /\ session_cache' = MoveToEnd(session_cache, k)
    /\ last' = [op |-> "get_session", key |-> k, outcome |-> "hit",
                ret |-> Lookup(session_cache, k)]
    /\ recency' = Touch(recency, k)
    /\ UNCHANGED <<max_cache_size, fastf1_calls>>

\* get_session(k) when k is not cached and the provider succeeds: lines 53-65.
GetSessionLoad(k) ==
    /\ ~Contains(session_cache, k)
    /\ fastf1_calls < MaxLoads
    /\ fastf1_calls' = fastf1_calls + 1
    /\ session_cache' = AddToCache(session_cache, k, fastf1_calls + 1, max_cache_size)
    /\ last' = [op |-> "get_session", key |-> k, outcome |-> "loaded",
                ret |-> fastf1_calls + 1]
    /\ recency' = Touch(recency, k)
    /\ UNCHANGED max_cache_size

\* get_session(k) when k is not cached and the provider raises: lines 53-56.
GetSessionRaise(k) ==
    /\ ~Contains(session_cache, k)
    /\ fastf1_calls < MaxLoads
    /\ fastf1_calls' = fastf1_calls + 1
    /\ session_cache' = AfterFailedLoad(session_cache, k)
    /\ last' = [op |-> "get_session", key |-> k, outcome |-> "raised",
                ret |-> NoSession]
    /\ UNCHANGED <<max_cache_size, recency>>

\* service.clear(): SessionService defines no such attribute, so the call
\* raises AttributeError and the cache is what it was.
Clear ==
    /\ last' = [op |-> "clear", key |-> 0, outcome |-> "AttributeError",
                ret |-> NoSession]
    /\ UNCHANGED <<max_cache_size, session_cache, fastf1_calls, recency>>

\* ------------------------------------------- get_session, worker threads
\* The pool of scripts/cache_f1_data.py runs cache_event in several threads
\* on one SessionService; a thread switch can fall between any two
\* dictionary operations of get_session.
Idle == [pc |-> "idle", key |-> 0, session |-> NoSession]

NoReturn == [key |-> 0, outcome |-> "none", ret |-> NoSession]

NoRace == [on |-> FALSE, key |-> 0, base |-> <<>>]

ThreadInit ==
    /\ thread = [t \in Threads |-> Idle]
    /\ returned = [t \in Threads |-> NoReturn]
    /\ race = NoRace

\* Another thread has found k missing and has not stored it yet.
MissInFlight(t, k) ==
    \E u \in Threads \ {t} : thread[u].key = k /\ thread[u].pc \in {"load", "add"}

Return(t, k, outcome, ret) ==
    /\ thread' = [thread EXCEPT ![t] = Idle]
    /\ returned' = [returned EXCEPT ![t] = [key |-> k, outcome |-> outcome, ret |-> ret]]

\* Lines 43-46: compute the key and test membership.
ThreadCheck(t, k) ==
    /\ thread[t].pc = "idle"
    /\ IF Contains(session_cache, k)
       THEN /\ thread' = [thread EXCEPT ![t] = [pc |-> "pop", key |-> k, session |-> NoSession]]
            /\ race' = NoRace
       ELSE /\ fastf1_calls < MaxLoads
            /\ thread' = [thread EXCEPT ![t] = [pc |-> "load", key |-> k, session |-> NoSession]]
            /\ race' = IF MissInFlight(t, k)
                       THEN [on |-> TRUE, key |-> k, base |-> session_cache]
                       ELSE NoRace
    /\ returned' = [returned EXCEPT ![t] = NoReturn]
    /\ UNCHANGED cacheVars

\* Line 49: session = self._session_cache.pop(cache_key); KeyError when the
\* key has gone since the membership test.
ThreadPop(t) ==
    /\ thread[t].pc = "pop"
    /\ IF Contains(session_cache, thread[t].key)
       THEN /\ thread' = [thread EXCEPT ![t].pc = "store",
                                        ![t].session = Lookup(session_cache, thread[t].key)]
            /\ session_cache' = Pop(session_cache, thread[t].key)
            /\ UNCHANGED returned
       ELSE /\ Return(t, thread[t].key, "KeyError", NoSession)
            /\ UNCHANGED session_cache
    /\ UNCHANGED <<max_cache_size, fastf1_calls, last, recency, race>>

\* Lines 50-51: store the popped session again and return it.
ThreadStore(t) ==
    /\ thread[t].pc = "store"
    /\ session_cache' = SetItem(session_cache, thread[t].key, thread[t].session)
    /\ Return(t, thread[t].key, "hit", thread[t].session)
    /\ UNCHANGED <<max_cache_size, fastf1_calls, last, recency, race>>

\* Lines 55-56: the provider builds the session.
ThreadLoad(t) ==
    /\ thread[t].pc = "load"
    /\ fastf1_calls < MaxLoads
    /\ fastf1_calls' = fastf1_calls + 1
    /\ thread' = [thread EXCEPT ![t].pc = "add", ![t].session = fastf1_calls + 1]
    /\ UNCHANGED <<max_cache_size, session_cache, last, recency, returned, race>>

\* Lines 55-56: the provider raises.
ThreadLoadRaise(t) ==
    /\ thread[t].pc = "load"
    /\ fastf1_calls < MaxLoads
    /\ fastf1_calls' = fastf1_calls + 1
    /\ Return(t, thread[t].key, "raised", NoSession)
    /\ UNCHANGED <<max_cache_size, session_cache, last, recency, race>>

\* Line 59: self._session_cache[cache_key] = session
ThreadAdd(t) ==
    /\ thread[t].pc = "add"
    /\ session_cache' = SetItem(session_cache, thread[t].key, thread[t].session)
    /\ thread' = [thread EXCEPT ![t].pc = "len"]
    /\ UNCHANGED <<max_cache_size, fastf1_calls, last, recency, returned, race>>

\* Line 62: the size test; line 65 when the cache is not too large.
ThreadLen(t) ==
    /\ thread[t].pc = "len"
    /\ IF TooLarge(session_cache, max_cache_size)
       THEN /\ thread' = [thread EXCEPT ![t].pc = "evict"]
            /\ UNCHANGED returned
       ELSE Return(t, thread[t].key, "loaded", thread[t].session)
    /\ UNCHANGED <<cacheVars, race>>

\* Lines 63-65: popitem(last=False), which raises KeyError on an empty
\* dictionary, then return.
ThreadEvict(t) ==
    /\ thread[t].pc = "evict"
    /\ IF session_cache = <<>>
       THEN /\ Return(t, thread[t].key, "KeyError", NoSession)
            /\ UNCHANGED session_cache
       ELSE /\ session_cache' = PopItemFirst(session_cache)
            /\ Return(t, thread[t].key, "loaded", thread[t].session)
    /\ UNCHANGED <<max_cache_size, fastf1_calls, last, recency, race>>

\* --------------------------------------- cache_session / update_session
\* The session type is the last component of the key.
SessionTypes == {"R", "Q"}

SessionTypeOf(k) == IF k % 2 = 1 THEN "R" ELSE "Q"

\* The longest the model lets one provider load hang.
MaxElapsed == MaxTimeout + 1

NoBatch ==
    [fn |-> "none", pc |-> "idle", key |-> 0, retry_count |-> 0, timeout |-> 0,
     attempt |-> 0, result |-> "none", warned |-> FALSE,
     calls |-> 0, fails |-> 0, failed0 |-> 0]

BatchInit ==
    /\ batch = NoBatch
    /\ elapsed = 0
    /\ usage_stats =
          [total_sessions |-> 0, successful_sessions |-> 0, failed_sessions |-> 0,
           session_types |->
              [s \in SessionTypes |-> [total |-> 0, successful |-> 0, failed |-> 0]]]

\* usage_stats[...]['total'] += 1; usage_stats['total_sessions'] += 1
CountTotal(u, k) ==
    [u EXCEPT !.total_sessions = @ + 1,
              !.session_types[SessionTypeOf(k)].total = @ + 1]

\* usage_stats[...]['successful'] += 1; usage_stats['successful_sessions'] += 1
CountSuccessful(u, k) ==
    [u EXCEPT !.successful_sessions = @ + 1,
              !.session_types[SessionTypeOf(k)].successful = @ + 1]

\* usage_stats[...]['failed'] += 1; usage_stats['failed_sessions'] += 1
CountFailed(u, k) ==
    [u EXCEPT !.failed_sessions = @ + 1,
              !.session_types[SessionTypeOf(k)].failed = @ + 1]

HasAttemptsLeftOffByOne(attempt, retry_count) == attempt < retry_count

\* `if attempt < retry_count - 1`: another attempt follows this failure
HasAttemptsLeft(attempt, retry_count) == attempt < retry_count - 1

BatchEntered(fn, k, r, to) ==
    [fn |-> fn, pc |-> "try", key |-> k, retry_count |-> r, timeout |-> to,
     attempt |-> 0, result |-> "none", warned |-> FALSE,
     calls |-> 0, fails |-> 0, failed0 |-> usage_stats.failed_sessions]

\* The fields calls, fails and failed0 are history: the get_session calls
\* made and failed by this call, and failed_sessions when it was entered.
\* cache_session(..., retry_count=r, timeout=to) is entered: lines 219-228.
CacheSessionCall(k, r, to) ==
    /\ batch.pc \in {"idle", "done"}
    /\ usage_stats.total_sessions < MaxBatchCalls
    /\ usage_stats' = CountTotal(usage_stats, k)
    /\ batch' = BatchEntered("cache_session", k, r, to)
    /\ UNCHANGED elapsed

\* update_session(..., retry_count=r) is entered and the session has
\* started: update_f1_data.py lines 198-219.
UpdateSessionCall(k, r) ==
    /\ batch.pc \in {"idle", "done"}
    /\ usage_stats.total_sessions < MaxBatchCalls
    /\ usage_stats' = CountTotal(usage_stats, k)
    /\ batch' = BatchEntered("update_session", k, r, 0)
    /\ UNCHANGED elapsed

\* update_session for a session that has not started yet: counted in the
\* totals, then `return False` at line 218 without a get_session call.
UpdateSessionSkip(k, r) ==
    /\ batch.pc \in {"idle", "done"}
    /\ usage_stats.total_sessions < MaxBatchCalls
    /\ usage_stats' = CountTotal(usage_stats, k)
    /\ batch' = [BatchEntered("update_session", k, r, 0) EXCEPT
                    !.pc = "done", !.result = "False"]
    /\ UNCHANGED elapsed

\* The success path after get_session returned: lines 239-248.
BatchSucceeds(b) ==
    /\ usage_stats' = CountSuccessful(usage_stats, b.key)
    /\ batch' = [b EXCEPT !.pc = "done", !.result = "True"]

\* One turn of `for attempt in range(retry_count)`: start_time is taken and
\* get_session is called; a cached key returns at once (lines 46-51), a
\* missing key waits for the provider.
BatchAttempt ==
    /\ batch.pc = "try"
    /\ elapsed' = 0
    /\ IF Contains(session_cache, batch.key)
       THEN /\ session_cache' = MoveToEnd(session_cache, batch.key)
            /\ BatchSucceeds([batch EXCEPT !.calls = @ + 1])
       ELSE /\ fastf1_calls < MaxLoads
            /\ batch' = [batch EXCEPT !.pc = "loading", !.calls = @ + 1]
            /\ UNCHANGED <<session_cache, usage_stats>>
    /\ UNCHANGED <<max_cache_size, fastf1_calls, last, recency>>

\* The provider has neither returned nor raised yet: time passes.
BatchTick ==
    /\ batch.pc = "loading"
    /\ elapsed < MaxElapsed
    /\ elapsed' = elapsed + 1
    /\ UNCHANGED <<cacheVars, batch, usage_stats>>

\* The provider returns: get_session stores the session and returns it.
BatchLoadReturns ==
    /\ batch.pc = "loading"
    /\ fastf1_calls < MaxLoads
    /\ fastf1_calls' = fastf1_calls + 1
    /\ session_cache' =
          AddToCache(session_cache, batch.key, fastf1_calls + 1, max_cache_size)
    /\ BatchSucceeds(batch)
    /\ UNCHANGED <<max_cache_size, last, recency, elapsed>>

\* The provider raises: the except branch, lines 249-264. A timeout is only
\* logged; the loop sleeps and goes on, or records the failure and returns
\* False; a loop that runs out of turns returns None.
BatchLoadRaises ==
    /\ batch.pc = "loading"
    /\ fastf1_calls < MaxLoads
    /\ fastf1_calls' = fastf1_calls + 1
    /\ session_cache' = AfterFailedLoad(session_cache, batch.key)
    /\ LET warned == batch.warned
                       \/ (batch.fn = "cache_session" /\ elapsed >= batch.timeout)
           b == [batch EXCEPT !.fails = @ + 1, !.warned = warned]
       IN  IF HasAttemptsLeft(batch.attempt, batch.retry_count)
           THEN \* time.sleep(2), then the next turn of range(retry_count), if any
                /\ batch' =
                     IF batch.attempt + 1 < batch.retry_count
                     THEN [b EXCEPT !.attempt = @ + 1, !.pc = "try"]
                     ELSE [b EXCEPT !.pc = "done", !.result = "None"]
                /\ UNCHANGED usage_stats
           ELSE /\ batch' = [b EXCEPT !.pc = "done", !.result = "False"]
                /\ usage_stats' = CountFailed(usage_stats, batch.key)
    /\ UNCHANGED <<max_cache_size, last, recency, elapsed>>

\* ------------------------------------------------------------- pd.cut
\* A missing value (numpy NaN) in a column of numbers, which are all >= 0.
NaN == -1

\* The smallest and the largest of a non-empty set of numbers.
SetMin(S) == CHOOSE x \in S : \A y \in S : x <= y

SetMax(S) == CHOOSE x \in S : \A y \in S : y <= x

\* The values of a column that are not missing.
Valid(values) == {values[i] : i \in 1..Len(values)} \ {NaN}

EdgeBelowRightOpen(i, x, mn, mx, n) ==
    IF mn = mx THEN 2 * i <= n
    ELSE IF i = 0 THEN TRUE
    ELSE IF i = n THEN FALSE
    ELSE i * (mx - mn) <= (x - mn) * n

\* pd.cut(values, n) with the default right=True builds the n + 1 edges
\* linspace(mn, mx, n + 1), moves edge 0 down by 0.1% of the range (when
\* mn = mx, it widens the range by 0.1% on both sides first), and finds the
\* bin of x with searchsorted(side='left'): this is whether edge i lies
\* strictly below x, in exact arithmetic.
EdgeBelow(i, x, mn, mx, n) ==
    IF mn = mx THEN 2 * i < n
    ELSE IF i = 0 THEN TRUE
    ELSE i * (mx - mn) < (x - mn) * n

CutLabelReversed(x, mn, mx, n) ==
    IF x = NaN THEN NaN
    ELSE LET ids == Cardinality({i \in 0..n : EdgeBelow(i, x, mn, mx, n)})
         IN  IF ids = 0 \/ ids = n + 1 THEN NaN ELSE n - ids

\* The label pd.cut gives x: the number of edges below x, less one; missing
\* for a missing value and for a value outside all bins.
CutLabel(x, mn, mx, n) ==
    IF x = NaN THEN NaN
    ELSE LET ids == Cardinality({i \in 0..n : EdgeBelow(i, x, mn, mx, n)})
         IN  IF ids = 0 \/ ids = n + 1 THEN NaN ELSE ids - 1

CutRaised == [status |-> "ValueError", labels |-> <<>>]

\* pd.cut(values, n, labels=False) for a column with a value that is not
\* missing; an empty column raises ValueError("Cannot cut empty array").
PdCut(values, n) ==
    IF Len(values) = 0 THEN CutRaised
    ELSE LET mn == SetMin(Valid(values))
             mx == SetMax(Valid(values))
         IN  [status |-> "ok",
              labels |-> [i \in 1..Len(values) |-> CutLabel(values[i], mn, mx, n)]]

\* What pd.cut can give. A column of missing values only has no minimum:
\* depending on the pandas version the call raises or labels nothing.
PdCutOutcomes(values, n) ==
    IF Len(values) > 0 /\ Valid(values) = {}
    THEN {CutRaised, [status |-> "ok", labels |-> [i \in 1..Len(values) |-> NaN]]}
    ELSE {PdCut(values, n)}

\* ------------------------------------------------- MiniSectorAnalyzer
SectorTypes == {"distance", "time", "angle", "speed"}

ValidSectorTypes == {"distance", "time", "angle"}

\* np.arctan2(dy, dx) in units of pi/4, for steps of -1, 0 or 1.
ArcTan2(dy, dx) ==
    CASE dy = 0 /\ dx >= 0 -> 0
      [] dy = 1 /\ dx = 1 -> 1
      [] dy = 1 /\ dx = 0 -> 2
      [] dy = 1 /\ dx = -1 -> 3
      [] dy = 0 /\ dx = -1 -> 4
      [] dy = -1 /\ dx = -1 -> -3
      [] dy = -1 /\ dx = 0 -> -2
      [] dy = -1 /\ dx = 1 -> -1

\* Lines 62-66: the heading of each row from the difference to the row
\* before it, normalised to [0, 2 pi); diff() of the first row is missing.
Angles(tel) ==
    [i \in 1..Len(tel) |->
        IF i = 1 THEN NaN
        ELSE (ArcTan2(tel[i].Y - tel[i - 1].Y, tel[i].X - tel[i - 1].X) + 8) % 8]

DistanceColumn(tel) == [i \in 1..Len(tel) |-> tel[i].Distance]

TimeColumn(tel) == [i \in 1..Len(tel) |-> tel[i].Time]

\* The column create_mini_sectors cuts, by sector_type: lines 48-72.
SectorColumn(tel, st) ==
    CASE st = "distance" -> DistanceColumn(tel)
      [] st = "time" -> TimeColumn(tel)
      [] st = "angle" -> Angles(tel)

NoResult == [status |-> "none"]

TelInit ==
    /\ tel_call = "none"
    /\ num_sectors = 0
    /\ sector_type = "distance"
    /\ telemetry = <<>>
    /\ drivers_telemetry_list = <<>>
    /\ mini_sectors = NoResult
    /\ fastest = NoResult
    /\ dominance = NoResult
    /\ requested = <<>>
    /\ drivers = <<>>
    /\ unavailable = {}

\* MiniSectorAnalyzer(tel, n, st).create_mini_sectors(): lines 37-76.
CreateMiniSectors(tel, n, st) ==
    /\ tel_call = "none"
    /\ tel_call' = "create_mini_sectors"
    /\ telemetry' = tel
    /\ num_sectors' = n
    /\ sector_type' = st
    /\ IF st \in ValidSectorTypes
       THEN \E r \in PdCutOutcomes(SectorColumn(tel, st), n) :
               mini_sectors' = [status |-> r.status, MiniSector |-> r.labels]
       ELSE mini_sectors' = [status |-> "ValueError", MiniSector |-> <<>>]
    /\ UNCHANGED <<drivers_telemetry_list, fastest, dominance, requested, drivers, unavailable>>

\* The telemetry given to create_mini_sectors: up to MaxRows rows. Only the
\* column the sector type reads varies.
Distances == {0, 25, 50, 75, 99, 100}

Times == 0..MaxTime

Coords == {0, 1}

Row(d, t, x, y) == [Distance |-> d, Time |-> t, X |-> x, Y |-> y]

SeqsUpTo(S, n) == UNION {[1..m -> S] : m \in 0..n}

TelemetryInputs(st) ==
    CASE st = "distance" ->
            {[i \in 1..Len(v) |-> Row(v[i], i, 0, 0)] : v \in SeqsUpTo(Distances, MaxRows)}
      [] st = "angle" ->
            {[i \in 1..Len(v) |-> Row(i, i, v[i][1], v[i][2])] :
                v \in SeqsUpTo(Coords \X Coords, MaxRows)}
      [] OTHER ->
            {[i \in 1..Len(v) |-> Row(i, v[i], 0, 0)] : v \in SeqsUpTo(Times, MaxRows)}

\* ------------------------------------------------ find_fastest_drivers
\* The drivers whose fastest laps are compared, in the order of the list
\* given to the analysis; it is also the order of their codes, in which
\* groupby sorts its groups.
DriverOrder == <<"A", "B">>

Drivers == {DriverOrder[i] : i \in 1..Len(DriverOrder)}

\* The time between two samples of a lap.
TimeSteps == {1, 2}

RECURSIVE Elapsed(_, _)
Elapsed(steps, i) == IF i = 0 THEN 0 ELSE Elapsed(steps, i - 1) + steps[i]

\* lap.get_telemetry() with telemetry['Driver'] = driver: one row per sample,
\* indexed from 0, a unit of distance apart and `steps` apart in time; X and
\* Y are the position readings of that sample, kept as the pair
\* <<driver, sample>>.
LapTelemetry(d, steps) ==
    [i \in 1..(Len(steps) + 1) |->
        [Driver |-> d, Index |-> i - 1, Distance |-> i - 1, Time |-> Elapsed(steps, i - 1),
         X |-> <<d, i>>, Y |-> <<d, i>>]]

\* The shape of a lap's telemetry: no sample at all, or up to MaxSamples
\* samples with the steps of time between them.
LapShapes(most) ==
    {[empty |-> TRUE, steps |-> <<>>]} \cup
    {[empty |-> FALSE, steps |-> steps] : steps \in SeqsUpTo(TimeSteps, most - 1)}

\* The fastest laps of the session, per driver, of at most `most` samples.
LapsUpTo(most) ==
    {[d \in Drivers |-> IF s[d].empty THEN <<>> ELSE LapTelemetry(d, s[d].steps)] :
        s \in [Drivers -> LapShapes(most)]}

LapInputs == LapsUpTo(MaxSamples)

\* The same for short laps, for the analyses in which the order of the
\* drivers and the drivers without telemetry vary as well.
ShortLapInputs == LapsUpTo(MaxRows)

\* The codes of a list of drivers.
Codes(order) == {order[i] : i \in 1..Len(order)}

\* The lists of distinct drivers: what a caller can ask for.
DriverLists ==
    {order \in SeqsUpTo(Drivers, Len(DriverOrder)) :
        \A i, j \in 1..Len(order) : i # j => order[i] # order[j]}

\* Lines 91-100: the MiniSector column of each driver's copy, always cut on
\* Distance whatever the sector_type of the analyzer.
Processed(list, n) == [d \in DOMAIN list |-> PdCut(DistanceColumn(list[d]), n)]

\* The positions, in order, of the rows of a column of labels that carry m.
RowsWith(labels, m) ==
    LET InSector(i) == labels[i] = m
    IN  SelectSeq([i \in 1..Len(labels) |-> i], InSector)

\* Series.diff(): each value less the one before it, missing on the first row.
Diff(ts) == [i \in 1..Len(ts) |-> IF i = 1 THEN NaN ELSE ts[i] - ts[i - 1]]

\* Series.sum(): the missing values are skipped, and nothing sums to zero.
RECURSIVE SumSkipNa(_)
SumSkipNa(s) ==
    IF Len(s) = 0 THEN 0
    ELSE (IF Head(s) = NaN THEN 0 ELSE Head(s)) + SumSkipNa(Tail(s))

DiffSumKeepNa(ts) == IF Len(ts) = 0 THEN 0 ELSE NaN

\* Line 107: lambda df: df['Time'].diff().sum()
DiffSum(ts) == SumSkipNa(Diff(ts))

GroupKeysInListOrder(order) == order

\* groupby sorts its keys: the drivers of the list by code, whatever the
\* order of the frames in the list (DriverOrder lists the codes in order).
GroupKeys(order) ==
    LET Listed(d) == d \in Codes(order)
    IN  SelectSeq(DriverOrder, Listed)

\* The groups of groupby(['Driver', 'MiniSector']) in its sorted order, those
\* without rows left out.
Groups(order, labels, n) ==
    LET keys == GroupKeys(order)
        all == [k \in 1..(Len(keys) * n) |->
                   [Driver |-> keys[((k - 1) \div n) + 1], MiniSector |-> (k - 1) % n]]
        HasRows(g) == Len(RowsWith(labels[g.Driver], g.MiniSector)) > 0
    IN  SelectSeq(all, HasRows)

\* Lines 106-108: the time_spent table, one row per group.
TimeSpentTable(order, list, labels, n) ==
    LET groups == Groups(order, labels, n)
    IN  [k \in 1..Len(groups) |->
            LET g == groups[k]
                rows == RowsWith(labels[g.Driver], g.MiniSector)
            IN  [Driver |-> g.Driver, MiniSector |-> g.MiniSector,
                 TimeSpent |-> DiffSum([j \in 1..Len(rows) |-> list[g.Driver][rows[j]].Time])]]

IdxMax(rows) ==
    CHOOSE i \in 1..Len(rows) :
        /\ \A j \in 1..Len(rows) : rows[j].TimeSpent <= rows[i].TimeSpent
        /\ \A j \in 1..(i - 1) : rows[j].TimeSpent < rows[i].TimeSpent

\* Series.idxmin(): the first row holding the minimum.
IdxMin(rows) ==
    CHOOSE i \in 1..Len(rows) :
        /\ \A j \in 1..Len(rows) : rows[i].TimeSpent <= rows[j].TimeSpent
        /\ \A j \in 1..(i - 1) : rows[i].TimeSpent < rows[j].TimeSpent

FastestOverall(table) ==
    [m \in {table[k].MiniSector : k \in 1..Len(table)} |-> table[IdxMin(table)]]

\* Lines 111-113: per mini-sector that has rows, the time_spent row chosen by
\* groupby('MiniSector')['TimeSpent'].idxmin().
FastestPerMiniSector(table) ==
    [m \in {table[k].MiniSector : k \in 1..Len(table)} |->
        LET InSector(r) == r.MiniSector = m
            rows == SelectSeq(table, InSector)
        IN  rows[IdxMin(rows)]]

\* What find_fastest_drivers returns for the frames `list` given in the order
\* `order`, or the ValueError of pd.cut (of pd.concat, for no frame at all).
FindFastest(order, list, n) ==
    LET processed == Processed(list, n)
    IN
    IF Len(order) = 0 \/ \E d \in DOMAIN list : processed[d].status = "ValueError"
    THEN [status |-> "ValueError"]
    ELSE LET labels == [d \in DOMAIN list |-> processed[d].labels]
             table == TimeSpentTable(order, list, labels, n)
         IN  [status |-> "ok",
              mini_sectors |-> labels,
              time_spent |-> table,
              fastest_per_mini_sector |-> FastestPerMiniSector(table)]

\* MiniSectorAnalyzer(tel, n, st).find_fastest_drivers(list): lines 78-115.
FindFastestDrivers(order, list, n, st) ==
    /\ tel_call = "none"
    /\ tel_call' = "find_fastest_drivers"
    /\ num_sectors' = n
    /\ sector_type' = st
    /\ requested' = order
    /\ drivers' = order
    /\ drivers_telemetry_list' = list
    /\ fastest' = FindFastest(order, list, n)
    /\ UNCHANGED <<telemetry, mini_sectors, dominance, unavailable>>

\* ------------------------------------------------------ track dominance
\* Lines 558-559: create_mini_sectors() on pd.concat(mini_sectors_list), in
\* distance mode; its labels are not used, but an empty frame makes it raise.
ConcatRaises(list) == \A d \in DOMAIN list : Len(list[d]) = 0

Max2(a, b) == IF a >= b THEN a ELSE b

Min2(a, b) == IF a <= b THEN a ELSE b

\* LapTime of a fastest lap: the time from its first sample to its last.
LapTime(lap) == IF Len(lap) = 0 THEN 0 ELSE lap[Len(lap)].Time - lap[1].Time

\* Lines 516-520: with no driver asked for, the drivers with laps, quickest
\* LapTime first (sort_values leaves the order of equal times open).
TopFastest(unavail, laps) ==
    {order \in DriverLists :
        /\ Codes(order) = Drivers \ unavail
        /\ \A i, j \in 1..Len(order) :
              i < j => LapTime(laps[order[i]]) <= LapTime(laps[order[j]])}

\* Line 523: drivers = drivers[:3]
FirstThree(order) == SubSeq(order, 1, Min2(3, Len(order)))

\* Lines 516-523: the values `drivers` can take for what was asked.
DriversFor(req, unavail, laps) ==
    IF Len(req) = 0 THEN {FirstThree(order) : order \in TopFastest(unavail, laps)}
    ELSE {FirstThree(req)}

\* Lines 526-543: the drivers whose telemetry was appended to
\* mini_sectors_list, the others having been logged and skipped.
Fetched(drv, unavail) ==
    LET Available(d) == d \notin unavail
    IN  SelectSeq(drv, Available)

MiniSectorsList(drv, unavail, laps) == [d \in Codes(Fetched(drv, unavail)) |-> laps[d]]

\* Lines 545-555: what is returned when mini_sectors_list is empty.
EmptyDominance == [status |-> "ok", track |-> [x |-> <<>>, y |-> <<>>], miniSectors |-> <<>>]

\* Lines 565-567: the track comes from the fastest lap of drivers[0], fetched
\* again outside the try of the loop.
ReferenceLap(drv, laps) == laps[drv[1]]

\* The rows of the winner of mini-sector m: lines 574-585.
WinnerRows(list, f, m) ==
    LET w == f.fastest_per_mini_sector[m].Driver
        rows == RowsWith(f.mini_sectors[w], m)
    IN  [j \in 1..Len(rows) |-> list[w][rows[j]]]

\* Lines 571-611: one entry per mini-sector of range(num_mini_sectors) that
\* has a winner with rows, carrying the X and Y of the winner's rows.
MiniSectorData(list, f, n) ==
    LET Emitted(m) == m \in DOMAIN f.fastest_per_mini_sector /\ Len(WinnerRows(list, f, m)) > 0
        ids == SelectSeq([k \in 1..n |-> k - 1], Emitted)
    IN  [k \in 1..Len(ids) |->
            LET rows == WinnerRows(list, f, ids[k])
            IN  [id |-> ids[k],
                 driver |-> f.fastest_per_mini_sector[ids[k]].Driver,
                 time |-> f.fastest_per_mini_sector[ids[k]].TimeSpent,
                 coordinates |-> [x |-> [j \in 1..Len(rows) |-> rows[j].X],
                                  y |-> [j \in 1..Len(rows) |-> rows[j].Y]]]]

\* Lines 516-562, shared by the data and the plot: the drivers worked on,
\* their telemetry, and the result of find_fastest_drivers (none when no
\* telemetry was fetched, and the function returns early).
DominancePrelude(req, unavail, laps, n) ==
    /\ tel_call = "none"
    /\ num_sectors' = n
    /\ sector_type' = "distance"
    /\ requested' = req
    /\ unavailable' = unavail
    /\ drivers' \in DriversFor(req, unavail, laps)
    /\ drivers_telemetry_list' = MiniSectorsList(drivers', unavail, laps)
    /\ fastest' =
         IF Len(Fetched(drivers', unavail)) = 0 THEN NoResult
         ELSE IF ConcatRaises(drivers_telemetry_list') THEN [status |-> "ValueError"]
         ELSE FindFastest(Fetched(drivers', unavail), drivers_telemetry_list', n)
    /\ UNCHANGED <<telemetry, mini_sectors>>

\* get_track_dominance_data(session, req, n): lines 501-638.
GetTrackDominanceData(req, unavail, laps, n) ==
    /\ DominancePrelude(req, unavail, laps, n)
    /\ tel_call' = "get_track_dominance_data"
    /\ dominance' =
         IF fastest' = NoResult THEN EmptyDominance
         ELSE IF fastest'.status = "ValueError" THEN [status |-> "ValueError"]
         ELSE IF drivers'[1] \in unavail THEN [status |-> "AttributeError"]
         ELSE LET lap == ReferenceLap(drivers', laps)
              IN  [status |-> "ok",
                   track |-> [x |-> [j \in 1..Len(lap) |-> lap[j].X],
                              y |-> [j \in 1..Len(lap) |-> lap[j].Y]],
                   miniSectors |-> MiniSectorData(drivers_telemetry_list', fastest', n)]

\* Lines 720-722: segment j (from 0) joins points j and j + 1 of the track.
Segments(lap) ==
    [j \in 1..Max2(Len(lap) - 1, 0) |->
        <<[x |-> lap[j].X, y |-> lap[j].Y], [x |-> lap[j + 1].X, y |-> lap[j + 1].Y]>>]

\* Line 746: if len(segment_indices) > 1
Drawable(indices) == Len(indices) > 1

\* Lines 748-753: the slice segments[min_idx:max_idx] of the track, by the
\* least and the greatest index of the winner's rows.
SegmentPoints(segments, indices) ==
    LET idx == {indices[j] : j \in 1..Len(indices)}
        min_idx == Max2(0, SetMin(idx))
        max_idx == Min2(Len(segments) - 1, SetMax(idx))
    IN  IF min_idx < max_idx THEN SubSeq(segments, min_idx + 1, max_idx) ELSE <<>>

\* Lines 725-760: one LineCollection per mini-sector whose winner has more
\* than one row and whose slice of the track is not empty.
Collections(lap, list, f, n) ==
    LET Indices(m) == [j \in 1..Len(WinnerRows(list, f, m)) |-> WinnerRows(list, f, m)[j].Index]
        Drawn(m) ==
            /\ m \in DOMAIN f.fastest_per_mini_sector
            /\ Drawable(Indices(m))
            /\ Len(SegmentPoints(Segments(lap), Indices(m))) > 0
        ids == SelectSeq([k \in 1..n |-> k - 1], Drawn)
    IN  [k \in 1..Len(ids) |->
            [id |-> ids[k],
             driver |-> f.fastest_per_mini_sector[ids[k]].Driver,
             segments |-> SegmentPoints(Segments(lap), Indices(ids[k]))]]

\* create_track_dominance_plot(session, req, n): lines 640-781.
CreateTrackDominancePlot(req, unavail, laps, n) ==
    /\ DominancePrelude(req, unavail, laps, n)
    /\ tel_call' = "create_track_dominance_plot"
    /\ dominance' =
         IF fastest' = NoResult THEN [status |-> "ok", collections |-> <<>>]
         ELSE IF fastest'.status = "ValueError" THEN [status |-> "ValueError"]
         ELSE IF drivers'[1] \in unavail THEN [status |-> "AttributeError"]
         ELSE [status |-> "ok",
               collections |-> Collections(ReferenceLap(drivers', laps),
                                           drivers_telemetry_list', fastest', n)]

\* ------------------------------------------- examples/minisectors_example
\* pd.concat(mini_sectors_list): the frames of the list one after the other.
RECURSIVE Concat(_, _)
Concat(order, list) ==
    IF Len(order) = 0 THEN <<>> ELSE list[Head(order)] \o Concat(Tail(order), list)

\* One pass of the loop over the methods, lines 74-91 of the example: an
\* analyzer of the method on the concatenated laps, create_mini_sectors()
\* and then find_fastest_drivers() on the list of laps. The script stops at
\* the first exception.
MiniSectorsExample(order, list, n, st) ==
    /\ tel_call = "none"
    /\ tel_call' = "minisectors_example"
    /\ num_sectors' = n
    /\ sector_type' = st
    /\ requested' = order
    /\ drivers' = order
    /\ drivers_telemetry_list' = list
    /\ telemetry' = Concat(order, list)
    /\ \E r \in PdCutOutcomes(SectorColumn(telemetry', st), n) :
          mini_sectors' = [status |-> r.status, MiniSector |-> r.labels]
    /\ fastest' = IF mini_sectors'.status = "ok" THEN FindFastest(order, list, n) ELSE NoResult
    /\ UNCHANGED <<dominance, unavailable>>

\* ------------------------------------- cache_session in the thread pool
\* One pool thread inside cache_session: where it is, its arguments, the
\* attempt it is on, and the operand it loaded for the `+= 1` under way
\* (reg, and for a per-type counter the dictionary object it was read from).
NoWorker ==
    [pc |-> "idle", key |-> 0, retry_count |-> 0, attempt |-> 0,
     ctr |-> "none", reg |-> 0, obj |-> 0]

\* made[s] counts the dictionaries assigned to usage_stats['session_types'][s]
\* (0: the key is absent); calls and returns are history.
NoWorkers ==
    [th |-> [t \in Threads |-> NoWorker],
     made |-> [s \in SessionTypes |-> 0],
     calls |-> [s \in SessionTypes |-> 0],
     returns |-> [s \in SessionTypes |-> 0]]

PoolCalls == workers.calls["R"] + workers.calls["Q"]

PerType == {"type_total", "type_successful", "type_failed"}

\* The value the left operand of `usage_stats[...] += 1` reads.
Counter(u, c, st) ==
    CASE c = "type_total" -> u.session_types[st].total
      [] c = "type_successful" -> u.session_types[st].successful
      [] c = "type_failed" -> u.session_types[st].failed
      [] c = "total_sessions" -> u.total_sessions
      [] c = "successful_sessions" -> u.successful_sessions
      [] OTHER -> u.failed_sessions

\* The assignment that ends `usage_stats[...] += 1`.
StoreCounter(u, c, st, v) ==
    CASE c = "type_total" -> [u EXCEPT !.session_types[st].total = v]
      [] c = "type_successful" -> [u EXCEPT !.session_types[st].successful = v]
      [] c = "type_failed" -> [u EXCEPT !.session_types[st].failed = v]
      [] c = "total_sessions" -> [u EXCEPT !.total_sessions = v]
      [] c = "successful_sessions" -> [u EXCEPT !.successful_sessions = v]
      [] OTHER -> [u EXCEPT !.failed_sessions = v]

\* The statement that follows the `+= 1` on counter c.
AfterCounter(c) ==
    CASE c = "type_total" -> [pc |-> "load", ctr |-> "total_sessions"]
      [] c = "total_sessions" -> [pc |-> "try", ctr |-> "none"]
      [] c = "type_successful" -> [pc |-> "load", ctr |-> "successful_sessions"]
      [] c = "type_failed" -> [pc |-> "load", ctr |-> "failed_sessions"]
      [] OTHER -> [pc |-> "idle", ctr |-> "none"]

\* executor.submit(cache_event, ...) reaching cache_session(k, retry_count=r).
PoolCacheSession(t, k, r) ==
    /\ workers.th[t].pc = "idle"
    /\ PoolCalls < MaxPoolCalls
    /\ workers' = [workers EXCEPT
          !.th[t] = [NoWorker EXCEPT !.pc = "check", !.key = k, !.retry_count = r],
          !.calls[SessionTypeOf(k)] = @ + 1]
    /\ UNCHANGED <<cacheVars, usage_stats>>

\* `if session_type not in usage_stats['session_types']`
PoolCheck(t) ==
    /\ workers.th[t].pc = "check"
    /\ workers' = [workers EXCEPT
          !.th[t].pc = IF workers.made[SessionTypeOf(workers.th[t].key)] = 0
                       THEN "new" ELSE "load",
          !.th[t].ctr = "type_total"]
    /\ UNCHANGED <<cacheVars, usage_stats>>

\* `usage_stats['session_types'][session_type] = {...zeros...}`
PoolNewType(t) ==
    LET st == SessionTypeOf(workers.th[t].key) IN
    /\ workers.th[t].pc = "new"
    /\ usage_stats' = [usage_stats EXCEPT
          !.session_types[st] = [total |-> 0, successful |-> 0, failed |-> 0]]
    /\ workers' = [workers EXCEPT !.th[t].pc = "load", !.made[st] = @ + 1]
    /\ UNCHANGED cacheVars

\* The read half of `usage_stats[...] += 1`.
PoolLoadCounter(t) ==
    LET w == workers.th[t]
        st == SessionTypeOf(w.key) IN
    /\ w.pc = "load"
    /\ workers' = [workers EXCEPT
          !.th[t].pc = "store",
          !.th[t].reg = Counter(usage_stats, w.ctr, st),
          !.th[t].obj = workers.made[st]]
    /\ UNCHANGED <<cacheVars, usage_stats>>

\* The write half of `usage_stats[...] += 1`. A per-type counter is stored
\* into the dictionary the read took it from, which another thread may have
\* replaced in usage_stats since.
PoolStoreCounter(t) ==
    LET w == workers.th[t]
        st == SessionTypeOf(w.key)
        next == AfterCounter(w.ctr) IN
    /\ w.pc = "store"
    /\ usage_stats' = IF w.ctr \in PerType /\ w.obj # workers.made[st]
                      THEN usage_stats
                      ELSE StoreCounter(usage_stats, w.ctr, st, w.reg + 1)
    /\ workers' = [workers EXCEPT
          !.th[t] = [w EXCEPT !.pc = next.pc, !.ctr = next.ctr],
          !.returns[st] = IF next.pc = "idle" THEN @ + 1 ELSE @]
    /\ UNCHANGED cacheVars

\* session_service.get_session(...) returns: lines 237-244.
PoolLoadReturns(t) ==
    LET w == workers.th[t] IN
    /\ w.pc = "try"
    /\ GetSessionHit(w.key) \/ GetSessionLoad(w.key)
    /\ workers' = [workers EXCEPT !.th[t].pc = "load",
                                  !.th[t].ctr = "type_successful"]
    /\ UNCHANGED usage_stats

\* session_service.get_session(...) raises: lines 250-264.
PoolLoadRaises(t) ==
    LET w == workers.th[t] IN
    /\ w.pc = "try"
    /\ GetSessionRaise(w.key)
    /\ workers' = IF HasAttemptsLeft(w.attempt, w.retry_count)
                  THEN [workers EXCEPT !.th[t].attempt = @ + 1]
                  ELSE [workers EXCEPT !.th[t].pc = "load",
                                       !.th[t].ctr = "type_failed"]
    /\ UNCHANGED usage_stats

\* ------------------------------------- prioritize_sessions, cache_event
\* SESSION_PRIORITY, and `.get(x, 0)` for a code that is not in it.
SESSION_PRIORITY(x) ==
    CASE x = "R" -> 10
      [] x = "Q" -> 9
      [] x = "S" -> 8
      [] x = "SQ" -> 7
      [] x = "FP3" -> 6
      [] x = "FP2" -> 5
      [] x = "FP1" -> 4
      [] OTHER -> 0

\* The codes get_session_types may give; "X" and "Y" are in no table.
SessionCodes == {"R", "Q", "S", "SQ", "FP3", "FP2", "FP1", "X", "Y"}

SessionLists == UNION {[1..n -> SessionCodes] : n \in 0..MaxSessions}

RECURSIVE InsertBeforeEquals(_, _)
InsertBeforeEquals(x, sorted) ==
    IF sorted = <<>> \/ SESSION_PRIORITY(sorted[1]) <= SESSION_PRIORITY(x)
    THEN <<x>> \o sorted
    ELSE <<sorted[1]>> \o InsertBeforeEquals(x, Tail(sorted))

\* Where a stable descending sort puts x among the items that came before
\* it: behind every item whose key is not smaller.
RECURSIVE InsertDescending(_, _)
InsertDescending(x, sorted) ==
    IF sorted = <<>> \/ SESSION_PRIORITY(sorted[1]) < SESSION_PRIORITY(x)
    THEN <<x>> \o sorted
    ELSE <<sorted[1]>> \o InsertDescending(x, Tail(sorted))

\* sorted(sessions, key=lambda x: SESSION_PRIORITY.get(x, 0), reverse=True)
RECURSIVE prioritize_sessions(_)
prioritize_sessions(sessions) ==
    IF sessions = <<>> THEN <<>>
    ELSE InsertDescending(sessions[Len(sessions)],
                          prioritize_sessions(SubSeq(sessions, 1, Len(sessions) - 1)))

\* One cache_event / update_event call: the list get_available_sessions_for_event
\* gave, the list the loop iterates, and the session types handed to
\* cache_session / update_session so far, in call order.
NoEvent ==
    [fn |-> "none", pc |-> "idle", prioritize |-> FALSE, sessions |-> <<>>,
     available_sessions |-> <<>>, processed |-> <<>>]

\* Lines 269-279 (258-270 in update_f1_data.py): up to the loop.
EventEntered(fn, sessions, prioritize) ==
    [fn |-> fn, pc |-> "loop", prioritize |-> prioritize, sessions |-> sessions,
     available_sessions |-> IF prioritize /\ sessions # <<>>
                            THEN prioritize_sessions(sessions) ELSE sessions,
     processed |-> <<>>]

CacheEvent(sessions, prioritize) ==
    /\ event.pc = "idle"
    /\ event' = EventEntered("cache_event", sessions, prioritize)

UpdateEvent(sessions, prioritize) ==
    /\ event.pc = "idle"
    /\ event' = EventEntered("update_event", sessions, prioritize)

\* One iteration of `for session_type in available_sessions`: the call of
\* cache_session / update_session for the next item, run to its return.
EventNextSession ==
    /\ event.pc = "loop"
    /\ Len(event.processed) < Len(event.available_sessions)
    /\ event' = [event EXCEPT
          !.processed = Append(@, event.available_sessions[Len(@) + 1])]

\* The loop is exhausted and the call returns its results.
EventReturn ==
    /\ event.pc = "loop"
    /\ Len(event.processed) = Len(event.available_sessions)
    /\ event' = [event EXCEPT !.pc = "done"]

\* ------------------------------------------------- utils/color_mapping
\* Entries of DEFAULT_DRIVER_COLORS and DEFAULT_TEAM_COLORS; "ZZZ" and
\* "Nowhere" stand for names that neither table has.
DEFAULT_DRIVER_COLORS == [VER |-> "#0600EF", LEC |-> "#DC0000"]

DEFAULT_TEAM_COLORS == [Ferrari |-> "#DC0000", McLaren |-> "#FF8700"]

DriverCodes == {"VER", "LEC", "ZZZ"}

TeamNames == {"Ferrari", "McLaren", "Nowhere"}

\* What plotting.get_driver_color_mapping(session=session) does: returns a
\* mapping that has or lacks the name, or raises.
MappingOutcomes == {"has", "lacks", "AttributeError", "TypeError", "Exception"}

\* plotting.driver_color: no such attribute, a table that has or lacks the
\* name, or an object whose membership test raises.
LegacyOutcomes == {"absent", "has", "lacks", "Exception"}

NeutralDefault == "#333333"

SessionColor == "color of the session mapping"

LegacyColor == "color of plotting.driver_color"

NoColor ==
    [fn |-> "none", name |-> "", session |-> FALSE, mapping |-> "lacks",
     legacy |-> "absent", result |-> ""]

\* `if name in table: return table[name]`, else the neutral default.
FromTable(table, name) ==
    IF name \in DOMAIN table THEN table[name] ELSE NeutralDefault

\* The body of get_driver_color / get_team_color over its static table.
ResolveColor(table, name, session, mapping, legacy) ==
    IF ~session THEN FromTable(table, name)
    ELSE CASE mapping = "has" -> SessionColor
           [] mapping = "lacks" -> FromTable(table, name)
           [] mapping \in {"AttributeError", "TypeError"} ->
                 IF legacy = "has" THEN LegacyColor ELSE FromTable(table, name)
           [] OTHER -> NeutralDefault

get_driver_color(driver_code, session, mapping, legacy) ==
    color' = [fn |-> "get_driver_color", name |-> driver_code, session |-> session,
              mapping |-> mapping, legacy |-> legacy,
              result |-> ResolveColor(DEFAULT_DRIVER_COLORS, driver_code,
                                      session, mapping, legacy)]

get_team_color(team_name, session, mapping, legacy) ==
    color' = [fn |-> "get_team_color", name |-> team_name, session |-> session,
              mapping |-> mapping, legacy |-> legacy,
              result |-> ResolveColor(DEFAULT_TEAM_COLORS, team_name,
                                      session, mapping, legacy)]

\* ------------------------------------------------- ScheduleService
\* Cache expiration time in seconds (24 hours).
CACHE_EXPIRATION == 24 * 60 * 60

\* The years get_schedule is asked for.
Years == {2023, 2024}

\* The steps time.time() is seen to advance by between two calls: a second,
\* and a second short of the expiration time.
ClockSteps == {1, CACHE_EXPIRATION - 1}

\* The history of the service: get_schedule calls made, provider calls made,
\* clock steps taken, and what the last get_schedule did (the entry it
\* found, the argument it gave the provider if it called it, the schedule
\* it went on with; a schedule is named by the provider call that built it).
NoSchedule ==
    [seq |-> 0, calls |-> 0, ticks |-> 0,
     last |-> [year |-> 0, found |-> "none", outcome |-> "none",
               asked |-> 0, data |-> 0]]

IsFreshInclusive(time, cache_time) == time - cache_time <= CACHE_EXPIRATION

\* `time.time() - cache_time < self.CACHE_EXPIRATION`
IsFresh(time, cache_time) == time - cache_time < CACHE_EXPIRATION

\* _get_cached_schedule(year): is there an entry that is still valid?
FromCache(year) ==
    /\ year \in DOMAIN schedule_cache
    /\ IsFresh(now, schedule_cache[year].time)

\* What _get_cached_schedule met: no entry, a valid one or an expired one.
Found(year) ==
    IF year \notin DOMAIN schedule_cache THEN "absent"
    ELSE IF IsFresh(now, schedule_cache[year].time) THEN "fresh" ELSE "expired"

\* _cache_schedule(year, schedule)
CacheSchedule(cache, year, data, time) ==
    [y \in DOMAIN cache \cup {year} |->
        IF y = year THEN [data |-> data, time |-> time] ELSE cache[y]]

\* get_schedule(year) served from the cache: lines 158-159.
GetScheduleCached(year) ==
    /\ schedule.seq < MaxScheduleCalls
    /\ FromCache(year)
    /\ schedule' = [schedule EXCEPT
          !.seq = @ + 1,
          !.last = [year |-> year, found |-> Found(year), outcome |-> "cached",
                    asked |-> 0, data |-> schedule_cache[year].data]]
    /\ UNCHANGED <<schedule_cache, now>>

\* get_schedule(year) fetching from the provider: lines 162-165.
GetScheduleFetch(year) ==
    /\ schedule.seq < MaxScheduleCalls
    /\ ~FromCache(year)
    /\ schedule_cache' = CacheSchedule(schedule_cache, year, schedule.calls + 1, now)
    /\ schedule' = [schedule EXCEPT
          !.seq = @ + 1,
          !.calls = @ + 1,
          !.last = [year |-> year, found |-> Found(year), outcome |-> "fetched",
                    asked |-> year, data |-> schedule.calls + 1]]
    /\ UNCHANGED now

\* get_schedule(year) when fastf1.get_event_schedule raises: lines 164,
\* 227-229; the caller gets {'year': year, 'races': []}.
GetScheduleFetchRaises(year) ==
    /\ schedule.seq < MaxScheduleCalls
    /\ ~FromCache(year)
    /\ schedule' = [schedule EXCEPT
          !.seq = @ + 1,
          !.calls = @ + 1,
          !.last = [year |-> year, found |-> Found(year), outcome |-> "raised",
                    asked |-> year, data |-> 0]]
    /\ UNCHANGED <<schedule_cache, now>>

\* time.time() advances between two calls.
ClockAdvances(d) ==
    /\ schedule.ticks < MaxTicks
    /\ now' = now + d
    /\ schedule' = [schedule EXCEPT !.ticks = @ + 1]
    /\ UNCHANGED schedule_cache

\* ------------------------------------- get_drivers_in_session and routes
NoResponse == [fn |-> "none", key |-> 0, returned |-> <<>>, http |-> 0]

\* session.drivers / session.laps of a bundle: a list that names the bundle.
DataOf(session) == <<session>>

\* success_response(...) and error_response(..., 500) of the routes.
HttpOk == 200

HttpError == 500

\* SessionService.get_drivers_in_session (lines 154-190) and get_driver_laps
\* (lines 192-232): get_session inside a try whose except logs and returns
\* []; then the route (api/routes/telemetry.py), which answers 500 only when
\* the service method raises.
ServiceThroughRoute(fn, k) ==
    /\ \/ GetSessionHit(k)
       \/ GetSessionLoad(k)
       \/ GetSessionRaise(k)
    /\ response' = [fn |-> fn, key |-> k,
                    returned |-> IF last'.outcome = "raised" THEN <<>> ELSE DataOf(last'.ret),
                    http |-> HttpOk]

GetDriversInSession(k) == ServiceThroughRoute("get_drivers_in_session", k)

GetDriverLaps(k) == ServiceThroughRoute("get_driver_laps", k)

\* The state of the other components before anything is called.
MoreInit ==
    /\ response = NoResponse
    /\ workers = NoWorkers
    /\ event = NoEvent
    /\ color = NoColor
    /\ schedule_cache = <<>>
    /\ now = 0
    /\ schedule = NoSchedule

\* ------------------------------------------------------------- claims
AllIdle == \A t \in Threads : thread[t].pc = "idle"

\* The cached key that was touched longest ago, by the history of touches.
LeastRecentlyTouched(c, r) ==
    r[CHOOSE i \in 1..Len(r) :
        /\ r[i] \in CachedKeys(c)
        /\ \A j \in 1..(i - 1) : r[j] \notin CachedKeys(c)]

\* C1: one caller, loads succeed: a get_session that inserts a new key into a
\* cache already holding max_cache_size entries evicts exactly the least
\* recently touched key; every other cached key stays, together with the new one.
C1_EvictsLeastRecentlyTouched ==
    [][\A k \in CacheKeys :
         ( /\ last'.op = "get_session" /\ last'.outcome = "loaded" /\ last'.key = k
           /\ fastf1_calls' = fastf1_calls + 1
           /\ k \notin CachedKeys(session_cache)
           /\ Len(session_cache) = max_cache_size )
         => /\ CachedKeys(session_cache') =
                 (CachedKeys(session_cache)
                    \ {LeastRecentlyTouched(session_cache, recency)}) \cup {k}
            /\ Len(session_cache') = max_cache_size]_vars

\* get(A), get(B), get(C) with max_cache_size = 2: B and C cached, A absent.
C1_Witness ==
    /\ max_cache_size = 2
    /\ last.outcome = "loaded"
    /\ Len(recency) = 3
    /\ CachedKeys(session_cache) = {recency[2], recency[3]}

\* C2: one caller: a get_session for a cached key returns the stored bundle
\* and does not call the provider; and a key whose get_session just returned
\* a bundle is cached with that bundle, so asking for it again loads nothing.
C2_HitReturnsStoredWithoutLoad ==
    /\ [][\A k \in CacheKeys :
            ( /\ k \in CachedKeys(session_cache)
              /\ last'.op = "get_session" /\ last'.key = k )
            => /\ last'.outcome = "hit"
               /\ last'.ret = Lookup(session_cache, k)
               /\ fastf1_calls' = fastf1_calls
               /\ k \in CachedKeys(session_cache')
               /\ Lookup(session_cache', k) = Lookup(session_cache, k)]_vars
    /\ [](last.outcome \in {"hit", "loaded"}
            => /\ last.key \in CachedKeys(session_cache)
               /\ Lookup(session_cache, last.key) = last.ret)

\* get(K), get(K): one provider call, the second call is a hit on bundle 1.
C2_Witness == last.outcome = "hit" /\ last.ret = 1 /\ fastf1_calls = 1

\* C3: when the provider raises during get_session(K), the call raises, the
\* cache (membership and order) is what it was with K absent, and the next
\* get_session(K) calls the provider again.
C3_FailedLoadNotCached ==
    [][\A k \in CacheKeys :
         /\ ( /\ last'.op = "get_session" /\ last'.outcome = "raised" /\ last'.key = k
              /\ fastf1_calls' = fastf1_calls + 1 )
            => /\ session_cache' = session_cache
               /\ k \notin CachedKeys(session_cache')
               /\ last'.ret = NoSession
         /\ ( /\ last.outcome = "raised" /\ last.key = k
              /\ last'.op = "get_session" /\ last'.key = k )
            => /\ fastf1_calls' = fastf1_calls + 1
               /\ last'.outcome \in {"loaded", "raised"}]_vars

\* A load failed against a full cache, which still holds what it held.
C3_Witness ==
    /\ last.outcome = "raised"
    /\ Len(session_cache) = max_cache_size
    /\ last.key \notin CachedKeys(session_cache)
    /\ fastf1_calls > max_cache_size

\* C4: one caller: a key touched before is cached exactly while at most
\* max_cache_size - 1 other distinct keys have been touched since its last
\* touch, and a hit puts its key in the most recent position.
C4_EvictedOnlyWhenAgedOut ==
    /\ \A i \in 1..Len(recency) :
          (recency[i] \in CachedKeys(session_cache))
             <=> (Len(recency) - i <= max_cache_size - 1)
    /\ last.outcome = "hit"
          => session_cache[Len(session_cache)].key = last.key

\* A hit on the oldest of two cached keys made it the newest, and a third
\* key then evicted the other one.
C4_Witness ==
    /\ max_cache_size = 2
    /\ Len(recency) = 3
    /\ fastf1_calls = 3
    /\ Len(session_cache) = 2
    /\ session_cache[1].session = 1
    /\ session_cache[2].session = 3

\* C5: one caller: after every get_session call the cache holds at most
\* max_cache_size entries.
C5_SizeBounded == Len(session_cache) <= max_cache_size

\* More keys were loaded than fit, and a hit followed.
C5_Witness ==
    /\ Len(session_cache) = max_cache_size
    /\ Len(recency) > max_cache_size
    /\ last.outcome = "hit"

\* C6: two threads that miss the same key at the same time and both return a
\* bundle leave the key cached once, and of the entries cached when they
\* raced only the least recently used one, and only from a full cache, is gone.
C6_RaceLeavesCacheIntact ==
    ( /\ race.on
      /\ AllIdle
      /\ \A t \in Threads : returned[t].key = race.key /\ returned[t].outcome = "loaded" )
    => /\ Cardinality({i \in 1..Len(session_cache) : session_cache[i].key = race.key}) = 1
       /\ Pop(session_cache, race.key) =
             IF Len(race.base) >= max_cache_size THEN Tail(race.base) ELSE race.base

\* C7: threads interleaving inside get_session: once every call has
\* returned the cache holds at most max_cache_size entries.
C7_SizeBoundedConcurrent == AllIdle => Len(session_cache) <= max_cache_size

\* C8: after clear() no key is cached.
C8_ClearEmptiesCache == last.op = "clear" => session_cache = <<>>

\* C9: cache_session and update_session with retry_count = R >= 1 call
\* get_session at most R times, return True at the first call that succeeds,
\* and after R failed calls record one failure for the key and return False.
C9_BoundedRetry ==
    batch.fn # "none" =>
        /\ batch.calls <= batch.retry_count
        /\ batch.fails <= batch.calls
        /\ batch.pc = "done" => batch.result \in {"True", "False"}
        /\ batch.result = "True" =>
              /\ batch.pc = "done"
              /\ batch.calls = batch.fails + 1
              /\ usage_stats.failed_sessions = batch.failed0
        /\ batch.pc = "try" => batch.calls = batch.fails
        /\ batch.pc = "loading" => batch.calls = batch.fails + 1
        /\ batch.fails = batch.retry_count =>
              /\ batch.pc = "done"
              /\ batch.result = "False"
              /\ usage_stats.failed_sessions = batch.failed0 + 1
        /\ batch.fails < batch.retry_count =>
              usage_stats.failed_sessions = batch.failed0

\* Two attempts, both failed: one failure recorded, False returned.
C9_Witness ==
    /\ batch.fn = "cache_session"
    /\ batch.retry_count = 2
    /\ batch.fails = 2
    /\ batch.result = "False"
    /\ usage_stats.failed_sessions = 1

\* C10: cache_session abandons an attempt whose elapsed time has reached the
\* timeout: no provider load is still awaited after more than `timeout`.
C10_AttemptAbortedAtTimeout ==
    (batch.fn = "cache_session" /\ batch.pc = "loading") => elapsed <= batch.timeout

\* C24 as stated: with several threads sharing the service, a get_session
\* call that found its key cached at the membership test never raises because
\* of another thread's get_session: the pop it goes on to does not end in
\* KeyError.
C24_HitNeverRaises ==
    [][\A t \in Threads : thread[t].pc = "pop" => returned'[t].outcome # "KeyError"]_vars

\* ------------------------------------------ claims on create_mini_sectors
Created == tel_call = "create_mini_sectors"

Labelled == Created /\ mini_sectors.status = "ok"

\* Distance mode with 4 mini-sectors on distances whose minimum is 0 and
\* whose maximum is 100.
FourOverHundred ==
    /\ Labelled
    /\ sector_type = "distance"
    /\ num_sectors = 4
    /\ {0, 100} \subseteq Valid(DistanceColumn(telemetry))

UpperBinOf(d) ==
    CASE d = 0 -> 0 [] d = 25 -> 1 [] d = 50 -> 2 [] d = 75 -> 3 [] d = 99 -> 3 [] d = 100 -> 3

LowerBinOf(d) ==
    CASE d = 0 -> 0 [] d = 25 -> 0 [] d = 50 -> 1 [] d = 75 -> 2 [] d = 99 -> 3 [] d = 100 -> 3

\* C11 as stated: with 4 mini-sectors over distances 0..100, the samples at
\* 0, 25, 50, 75, 99 get mini-sectors 0, 1, 2, 3, 3: a sample on an interior
\* bin edge belongs to the upper bin.
C11_EdgeInUpperBin ==
    FourOverHundred =>
        \A i \in 1..Len(telemetry) :
            mini_sectors.MiniSector[i] = UpperBinOf(telemetry[i].Distance)

\* C11, amended: with 4 mini-sectors over distances 0..100, the samples at
\* 0, 25, 50, 75, 99 get mini-sectors 0, 0, 1, 2, 3: a sample on an interior
\* bin edge belongs to the lower bin.
C11_EdgeInLowerBin ==
    FourOverHundred =>
        \A i \in 1..Len(telemetry) :
            mini_sectors.MiniSector[i] = LowerBinOf(telemetry[i].Distance)

C11_Witness ==
    /\ FourOverHundred
    /\ \E i \in 1..Len(telemetry) :
          telemetry[i].Distance = 50 /\ mini_sectors.MiniSector[i] = 1

\* C12: for a non-empty telemetry, in each of the modes distance, time and
\* angle, create_mini_sectors gives every sample, the first included, a
\* mini-sector id in 0..num_sectors-1.
C12_EverySampleLabelled ==
    (Created /\ sector_type \in ValidSectorTypes /\ Len(telemetry) > 0) =>
        /\ mini_sectors.status = "ok"
        /\ Len(mini_sectors.MiniSector) = Len(telemetry)
        /\ \A i \in 1..Len(telemetry) : mini_sectors.MiniSector[i] \in 0..(num_sectors - 1)

NonDecreasing(col) == \A i, j \in 1..Len(col) : i <= j => col[i] <= col[j]

\* C13: in distance mode (time mode), the mini-sector ids are non-decreasing
\* along the samples whenever the distance (the time) is.
C13_LabelsFollowColumn ==
    (/\ Labelled
     /\ sector_type \in {"distance", "time"}
     /\ NonDecreasing(SectorColumn(telemetry, sector_type))) =>
        NonDecreasing(mini_sectors.MiniSector)

C13_Witness ==
    /\ Labelled
    /\ sector_type = "time"
    /\ Len(telemetry) = MaxRows
    /\ NonDecreasing(TimeColumn(telemetry))
    /\ mini_sectors.MiniSector[1] < mini_sectors.MiniSector[2]
    /\ mini_sectors.MiniSector[2] <= mini_sectors.MiniSector[MaxRows]

\* ----------------------------------------- claims on find_fastest_drivers
Resolved == tel_call = "find_fastest_drivers" /\ fastest.status = "ok"

\* The samples (by position) of driver d that were put in mini-sector m.
SamplesIn(d, m) ==
    {i \in 1..Len(drivers_telemetry_list[d]) : fastest.mini_sectors[d][i] = m}

\* The sum, over the samples of d in m but the first, of the time since the
\* sample of d in m before it: counted one unit of time at a time.
ConsecutiveSum(d, m) ==
    LET S == SamplesIn(d, m)
        Before(i) == SetMax({j \in S : j < i})
        Gap(i) == drivers_telemetry_list[d][i].Time - drivers_telemetry_list[d][Before(i)].Time
    IN  Cardinality(UNION {{<<i, u>> : u \in 1..Gap(i)} : i \in S \ {SetMin(S)}})

\* C14 as stated: an analyzer whose sector_type is none of distance, time and
\* angle fails with ValueError and labels nothing, in every operation; none
\* falls back to a default mode.
C14_UnknownSectorTypeRejected ==
    sector_type \notin ValidSectorTypes =>
        /\ Created => mini_sectors = [status |-> "ValueError", MiniSector |-> <<>>]
        /\ tel_call = "find_fastest_drivers" => fastest.status = "ValueError"

\* C15: TimeSpent of a (driver, mini-sector) is the sum of the time differences
\* between consecutive samples of that driver in that mini-sector, the first
\* sample adding nothing; there is one row per driver and mini-sector with
\* samples; the value is never missing nor negative; a driver whose only two
\* samples are both in mini-sector 0 gets time[1] - time[0].
C15_TimeSpentIsConsecutiveSum ==
    Resolved =>
        /\ \A k \in 1..Len(fastest.time_spent) :
              LET r == fastest.time_spent[k]
              IN  /\ SamplesIn(r.Driver, r.MiniSector) # {}
                  /\ r.TimeSpent = ConsecutiveSum(r.Driver, r.MiniSector)
                  /\ r.TimeSpent >= 0
                  /\ r.TimeSpent # NaN
        /\ \A d \in Drivers, m \in 0..(num_sectors - 1) :
              SamplesIn(d, m) # {} =>
                  Cardinality({k \in 1..Len(fastest.time_spent) :
                                  /\ fastest.time_spent[k].Driver = d
                                  /\ fastest.time_spent[k].MiniSector = m}) = 1
        /\ \A d \in Drivers :
              (Len(drivers_telemetry_list[d]) = 2 /\ SamplesIn(d, 0) = {1, 2}) =>
                  \E k \in 1..Len(fastest.time_spent) :
                      /\ fastest.time_spent[k].Driver = d
                      /\ fastest.time_spent[k].MiniSector = 0
                      /\ fastest.time_spent[k].TimeSpent =
                            drivers_telemetry_list[d][2].Time - drivers_telemetry_list[d][1].Time

C15_Witness ==
    /\ Resolved
    /\ \E d \in Drivers :
          /\ Len(drivers_telemetry_list[d]) = 2
          /\ SamplesIn(d, 0) = {1, 2}
          /\ \E k \in 1..Len(fastest.time_spent) :
                /\ fastest.time_spent[k].Driver = d
                /\ fastest.time_spent[k].TimeSpent = 2
    /\ \E e \in Drivers : Cardinality(SamplesIn(e, 0)) >= 3

\* C16: the winner reported for a mini-sector is a driver with samples there
\* whose TimeSpent is at most that of every driver with samples there, and
\* every mini-sector with samples has a winner.
C16_WinnerIsMinimal ==
    Resolved =>
        /\ DOMAIN fastest.fastest_per_mini_sector =
              {m \in 0..(num_sectors - 1) : \E d \in Drivers : SamplesIn(d, m) # {}}
        /\ \A m \in DOMAIN fastest.fastest_per_mini_sector :
              LET w == fastest.fastest_per_mini_sector[m]
              IN  /\ w.MiniSector = m
                  /\ SamplesIn(w.Driver, m) # {}
                  /\ w.TimeSpent = ConsecutiveSum(w.Driver, m)
                  /\ \A d \in Drivers :
                        SamplesIn(d, m) # {} => w.TimeSpent <= ConsecutiveSum(d, m)

C16_Witness ==
    /\ Resolved
    /\ \E m \in DOMAIN fastest.fastest_per_mini_sector :
          /\ fastest.fastest_per_mini_sector[m].Driver = DriverOrder[2]
          /\ SamplesIn(DriverOrder[1], m) # {}
          /\ ConsecutiveSum(DriverOrder[2], m) < ConsecutiveSum(DriverOrder[1], m)

\* C17 as stated: when the samples of one competitor are empty,
\* find_fastest_drivers raises no error, that competitor wins nothing and the
\* others are resolved as usual.
C17_EmptyCompetitorIgnored ==
    (/\ tel_call = "find_fastest_drivers"
     /\ \E d \in Drivers : Len(drivers_telemetry_list[d]) = 0
     /\ \E d \in Drivers : Len(drivers_telemetry_list[d]) > 0) =>
        /\ fastest.status = "ok"
        /\ \A m \in DOMAIN fastest.fastest_per_mini_sector :
              Len(drivers_telemetry_list[fastest.fastest_per_mini_sector[m].Driver]) > 0

\* The fixture of C18: 3 mini-sectors over 6 samples a unit of distance apart,
\* so that samples 1-2, 3-4 and 5-6 are the three partitions; the time a
\* driver takes in partition m is worked out by hand.
ThreeByTwo ==
    /\ Resolved
    /\ num_sectors = 3
    /\ \A d \in Drivers : Len(drivers_telemetry_list[d]) = 6

ByHand(d, m) ==
    drivers_telemetry_list[d][2 * m + 2].Time - drivers_telemetry_list[d][2 * m + 1].Time

FirstTwoThenLast ==
    /\ ByHand(DriverOrder[1], 0) < ByHand(DriverOrder[2], 0)
    /\ ByHand(DriverOrder[1], 1) < ByHand(DriverOrder[2], 1)
    /\ ByHand(DriverOrder[2], 2) < ByHand(DriverOrder[1], 2)

\* C18: with a 3-mini-sector distance partition in which A takes less time in
\* mini-sectors 0 and 1 and B less in mini-sector 2, the winners are exactly
\* 0: A, 1: A, 2: B.
C18_EndToEndWinners ==
    (ThreeByTwo /\ FirstTwoThenLast) =>
        /\ DOMAIN fastest.fastest_per_mini_sector = {0, 1, 2}
        /\ fastest.fastest_per_mini_sector[0].Driver = DriverOrder[1]
        /\ fastest.fastest_per_mini_sector[1].Driver = DriverOrder[1]
        /\ fastest.fastest_per_mini_sector[2].Driver = DriverOrder[2]

C18_Witness ==
    /\ ThreeByTwo
    /\ FirstTwoThenLast
    /\ fastest.fastest_per_mini_sector[2].Driver = DriverOrder[2]
    /\ fastest.fastest_per_mini_sector[2].TimeSpent = ByHand(DriverOrder[2], 2)

\* ------------------------------------------- claims on the track dominance
Assembled ==
    /\ tel_call \in {"get_track_dominance_data", "create_track_dominance_plot"}
    /\ dominance.status = "ok"

\* What the assembler shows: the 'miniSectors' of the data, the line
\* collections of the plot.
Shown ==
    IF tel_call = "get_track_dominance_data" THEN dominance.miniSectors
    ELSE dominance.collections

\* C19 as stated: a mini-sector whose winner has fewer than 2 samples in it is
\* never shown, neither in 'miniSectors' of get_track_dominance_data nor as a
\* segment drawn by create_track_dominance_plot.
C19_SinglePointDropped ==
    Assembled =>
        \A k \in 1..Len(Shown) :
            Cardinality(SamplesIn(Shown[k].driver, Shown[k].id)) >= 2

\* The X (the Y) of the samples of driver d in mini-sector m, in lap order.
OwnColumn(d, m, xy) ==
    LET S == SamplesIn(d, m)
        At(j) == CHOOSE i \in S : Cardinality({h \in S : h < i}) = j - 1
    IN  [j \in 1..Cardinality(S) |->
            IF xy = "x" THEN drivers_telemetry_list[d][At(j)].X
            ELSE drivers_telemetry_list[d][At(j)].Y]

\* The points a shown mini-sector is made of, in order.
PointsShown(e) ==
    IF tel_call = "get_track_dominance_data"
    THEN [j \in 1..Len(e.coordinates.x) |-> [x |-> e.coordinates.x[j], y |-> e.coordinates.y[j]]]
    ELSE [j \in 1..(Len(e.segments) + 1) |->
             IF j = 1 THEN e.segments[1][1] ELSE e.segments[j - 1][2]]

\* C20 as stated: the coordinates of every shown mini-sector are exactly the
\* winner's own (X, Y) samples in it, in their order, never those of the
\* reference (first) driver, in the data and in the plot.
C20_WinnersOwnCoordinates ==
    Assembled =>
        \A k \in 1..Len(Shown) :
            LET e == Shown[k]
                pts == PointsShown(e)
                own_x == OwnColumn(e.driver, e.id, "x")
                own_y == OwnColumn(e.driver, e.id, "y")
            IN  /\ e.driver = fastest.fastest_per_mini_sector[e.id].Driver
                /\ Len(pts) = Len(own_x)
                /\ \A j \in 1..Len(pts) : pts[j].x = own_x[j] /\ pts[j].y = own_y[j]

\* ------------------------------- claims on the drivers of an analysis
\* A driver asked for has no telemetry, another one has a lap with samples.
OneDriverFails ==
    /\ tel_call = "get_track_dominance_data"
    /\ \E d \in Codes(requested) : d \in unavailable
    /\ \E d \in Codes(requested) : d \notin unavailable
    /\ \A d \in DOMAIN drivers_telemetry_list : Len(drivers_telemetry_list[d]) > 0

\* C21 as stated: when telemetry cannot be obtained for one driver asked for,
\* get_track_dominance_data skips that driver and still returns a result
\* built from the others, whatever the place of the failing driver in the
\* list, the first (the reference of the track) included.
C21_FailingDriverSkipped ==
    OneDriverFails =>
        /\ dominance.status = "ok"
        /\ DOMAIN drivers_telemetry_list = Codes(requested) \ unavailable
        /\ \A k \in 1..Len(dominance.miniSectors) :
              dominance.miniSectors[k].driver \notin unavailable

\* C22 as stated: get_track_dominance_data called with no driver, or for
\* which no driver yields telemetry, fails instead of returning a result.
C22_NoDriverIsFatal ==
    (/\ tel_call = "get_track_dominance_data"
     /\ Len(requested) = 0 \/ DOMAIN drivers_telemetry_list = {}) =>
        dominance.status # "ok"

\* The place of sample i of the k-th driver of the list in the concatenated
\* telemetry of the analyzer.
PlaceInConcat(k, i) == Len(Concat(SubSeq(drivers, 1, k - 1), drivers_telemetry_list)) + i

\* C26 as stated: the mini-sector id find_fastest_drivers uses for a sample is
\* the one create_mini_sectors gives that sample under the sector_type of the
\* analyzer, in each mode.
C26_SameIdsAsCreateMiniSectors ==
    (/\ tel_call = "minisectors_example"
     /\ mini_sectors.status = "ok"
     /\ fastest.status = "ok") =>
        \A k \in 1..Len(drivers) :
            \A i \in 1..Len(drivers_telemetry_list[drivers[k]]) :
                fastest.mini_sectors[drivers[k]][i] = mini_sectors.MiniSector[PlaceInConcat(k, i)]

\* The place of a driver code in the order of the codes.
CodeRank(d) == CHOOSE i \in 1..Len(DriverOrder) : DriverOrder[i] = d

\* C27: find_fastest_drivers does not depend on the order of the list: for
\* every permutation of drivers_telemetry_list the winner and the TimeSpent
\* per mini-sector are the same; of the drivers with the least TimeSpent in a
\* mini-sector the one whose code sorts first is the winner.
C27_OrderIndependent ==
    Resolved =>
        /\ \A order \in DriverLists :
              Codes(order) = Codes(drivers) =>
                  LET other == FindFastest(order, drivers_telemetry_list, num_sectors)
                  IN  /\ other.fastest_per_mini_sector = fastest.fastest_per_mini_sector
                      /\ other.time_spent = fastest.time_spent
        /\ \A m \in DOMAIN fastest.fastest_per_mini_sector :
              \A d \in Codes(drivers) :
                  (SamplesIn(d, m) # {} /\
                   ConsecutiveSum(d, m) = fastest.fastest_per_mini_sector[m].TimeSpent) =>
                      CodeRank(fastest.fastest_per_mini_sector[m].Driver) <= CodeRank(d)

C27_Witness ==
    /\ Resolved
    /\ drivers = <<DriverOrder[2], DriverOrder[1]>>
    /\ \E m \in DOMAIN fastest.fastest_per_mini_sector :
          /\ Cardinality(SamplesIn(DriverOrder[1], m)) >= 2
          /\ Cardinality(SamplesIn(DriverOrder[2], m)) >= 2
          /\ ConsecutiveSum(DriverOrder[1], m) = ConsecutiveSum(DriverOrder[2], m)
          /\ fastest.fastest_per_mini_sector[m].Driver = DriverOrder[1]

\* C23 as stated: a provider failure inside get_session is surfaced as a
\* failure to the caller of get_drivers_in_session and get_driver_laps and of
\* their routes, never turned into a successful empty result.
C23_ProviderFailureSurfaced ==
    (response.fn # "none" /\ last.outcome = "raised") => response.http = HttpError

\* ------------------------------------------ claims on the batch counters
PoolIdle == \A t \in Threads : workers.th[t].pc = "idle"

\* C25: once every cache_session call made in the pool threads has
\* returned, total_sessions is the number of calls and equals
\* successful_sessions + failed_sessions, and each session type's total is
\* the number of calls for that type and equals its successful + failed.
C25_CountersExact ==
    (PoolIdle /\ PoolCalls > 0) =>
        /\ usage_stats.total_sessions = PoolCalls
        /\ usage_stats.total_sessions =
              usage_stats.successful_sessions + usage_stats.failed_sessions
        /\ \A st \in SessionTypes :
              workers.calls[st] > 0 =>
                 /\ usage_stats.session_types[st].total = workers.calls[st]
                 /\ usage_stats.session_types[st].total =
                       usage_stats.session_types[st].successful
                       + usage_stats.session_types[st].failed

\* ------------------------------------------- claims on the session order
\* The order the documentation gives, most important first.
Documented == <<"R", "Q", "S", "SQ", "FP3", "FP2", "FP1">>

\* The place of a code in that order; an unknown code comes behind all.
Place(x) ==
    IF \E i \in DOMAIN Documented : Documented[i] = x
    THEN CHOOSE i \in DOMAIN Documented : Documented[i] = x
    ELSE Len(Documented) + 1

SamePlace(seq, p) == SelectSeq(seq, LAMBDA x : Place(x) = p)

\* C28: with prioritize set, the list the event loop walks is a permutation
\* of the available sessions in the order R, Q, S, SQ, FP3, FP2, FP1,
\* unknown codes last, items of one priority in their input order; and the
\* sessions are handed to cache_session / update_session one after another
\* in exactly that order.
C28_ProcessedInPriorityOrder ==
    (event.fn # "none" /\ event.prioritize) =>
        LET out == event.available_sessions IN
        /\ Len(out) = Len(event.sessions)
        /\ \A i, j \in DOMAIN out : i < j => Place(out[i]) <= Place(out[j])
        /\ \A p \in 1..(Len(Documented) + 1) :
              SamePlace(out, p) = SamePlace(event.sessions, p)
        /\ event.processed = SubSeq(out, 1, Len(event.processed))
        /\ event.pc = "done" => event.processed = out

C28_Witness ==
    /\ event.pc = "done"
    /\ event.prioritize
    /\ event.sessions = <<"Y", "R", "X">>
    /\ event.processed = <<"R", "Y", "X">>

\* ------------------------------------------------- claims on the colors
InStaticTable ==
    \/ color.fn = "get_driver_color" /\ color.name \in DOMAIN DEFAULT_DRIVER_COLORS
    \/ color.fn = "get_team_color" /\ color.name \in DOMAIN DEFAULT_TEAM_COLORS

\* C29: get_driver_color and get_team_color give a name that is in the
\* static table a color other than the neutral default '#333333', in
\* whatever way the lookup through the session fails.
C29_StaticNameNeverNeutral ==
    InStaticTable => color.result # NeutralDefault

\* ---------------------------------------------- claims on the schedule
\* Seconds since the entry of a year was fetched.
SinceFetch(year) == now - schedule_cache[year].time

\* A year is served from memory while it has an entry fetched less than
\* CACHE_EXPIRATION seconds ago.
Servable(year) ==
    year \in DOMAIN schedule_cache /\ SinceFetch(year) < CACHE_EXPIRATION

\* C30: a get_schedule(year) for a year that is not cached, or whose entry
\* was fetched CACHE_EXPIRATION seconds ago or more, calls the provider
\* exactly once with that year and, if the fetch succeeds, stores what it
\* got under the time of the fetch; otherwise the call is served from the
\* cache with no provider call and no change to the cache; a fetch that
\* raises caches nothing.
C30_FetchOncePerExpiry ==
    [][schedule'.seq # schedule.seq =>
          LET year == schedule'.last.year IN
          IF Servable(year)
          THEN /\ schedule'.calls = schedule.calls
               /\ schedule'.last.asked = 0
               /\ schedule'.last.data = schedule_cache[year].data
               /\ schedule_cache' = schedule_cache
          ELSE /\ schedule'.calls = schedule.calls + 1
               /\ schedule'.last.asked = year
               /\ IF schedule'.last.outcome = "raised"
                  THEN schedule_cache' = schedule_cache
                  ELSE /\ schedule_cache'[year] =
                             [data |-> schedule'.last.data, time |-> now]
                       /\ schedule'.last.data \notin
                             {schedule_cache[y].data : y \in DOMAIN schedule_cache}
                       /\ \A y \in DOMAIN schedule_cache \ {year} :
                             schedule_cache'[y] = schedule_cache[y]]_vars

\* An entry fetched at time 0 is fetched again by the call made exactly
\* CACHE_EXPIRATION seconds later.
C30_Witness ==
    /\ schedule.last.found = "expired"
    /\ schedule.last.outcome = "fetched"
    /\ schedule.last.year \in DOMAIN schedule_cache
    /\ schedule_cache[schedule.last.year].time = CACHE_EXPIRATION
    /\ schedule.calls = 2

\* ------------------------------------------------------- specifications
Init == CacheInit /\ ThreadInit /\ BatchInit /\ TelInit /\ MoreInit

Next ==
    \/ \E k \in CacheKeys : GetSessionHit(k) /\ UNCHANGED <<threadVars, batchVars, telVars, moreVars>>
    \/ \E k \in CacheKeys : GetSessionLoad(k) /\ UNCHANGED <<threadVars, batchVars, telVars, moreVars>>
    \/ \E k \in CacheKeys : GetSessionRaise(k) /\ UNCHANGED <<threadVars, batchVars, telVars, moreVars>>
    \/ Clear /\ UNCHANGED <<threadVars, batchVars, telVars, moreVars>>

Spec == Init /\ [][Next]_vars

ConcNext ==
    \/ \E t \in Threads, k \in CacheKeys : ThreadCheck(t, k) /\ UNCHANGED <<batchVars, telVars, moreVars>>
    \/ \E t \in Threads : ThreadPop(t) /\ UNCHANGED <<batchVars, telVars, moreVars>>
    \/ \E t \in Threads : ThreadStore(t) /\ UNCHANGED <<batchVars, telVars, moreVars>>
    \/ \E t \in Threads : ThreadLoad(t) /\ UNCHANGED <<batchVars, telVars, moreVars>>
    \/ \E t \in Threads : ThreadLoadRaise(t) /\ UNCHANGED <<batchVars, telVars, moreVars>>
    \/ \E t \in Threads : ThreadAdd(t) /\ UNCHANGED <<batchVars, telVars, moreVars>>
    \/ \E t \in Threads : ThreadLen(t) /\ UNCHANGED <<batchVars, telVars, moreVars>>
    \/ \E t \in Threads : ThreadEvict(t) /\ UNCHANGED <<batchVars, telVars, moreVars>>

ConcSpec == Init /\ [][ConcNext]_vars

BatchNext ==
    \/ \E k \in CacheKeys, r \in 1..MaxRetry, to \in 1..MaxTimeout :
          CacheSessionCall(k, r, to) /\ UNCHANGED <<cacheVars, threadVars, telVars, moreVars>>
    \/ \E k \in CacheKeys, r \in 1..MaxRetry :
          UpdateSessionCall(k, r) /\ UNCHANGED <<cacheVars, threadVars, telVars, moreVars>>
    \/ \E k \in CacheKeys, r \in 1..MaxRetry :
          UpdateSessionSkip(k, r) /\ UNCHANGED <<cacheVars, threadVars, telVars, moreVars>>
    \/ BatchAttempt /\ UNCHANGED <<threadVars, telVars, moreVars>>
    \/ BatchTick /\ UNCHANGED <<threadVars, telVars, moreVars>>
    \/ BatchLoadReturns /\ UNCHANGED <<threadVars, telVars, moreVars>>
    \/ BatchLoadRaises /\ UNCHANGED <<threadVars, telVars, moreVars>>

BatchSpec == Init /\ [][BatchNext]_vars

ApiNext ==
    \/ \E k \in CacheKeys :
          GetDriversInSession(k)
          /\ UNCHANGED <<threadVars, batchVars, telVars, workers, event, color, schedVars>>
    \/ \E k \in CacheKeys :
          GetDriverLaps(k)
          /\ UNCHANGED <<threadVars, batchVars, telVars, workers, event, color, schedVars>>

ApiSpec == Init /\ [][ApiNext]_vars

PartNext ==
    /\ tel_call = "none"
    /\ \E st \in SectorTypes, n \in 1..MaxSectors :
          \E tel \in TelemetryInputs(st) :
              CreateMiniSectors(tel, n, st) /\ UNCHANGED <<cacheVars, threadVars, batchVars, moreVars>>

PartSpec == Init /\ [][PartNext]_vars

DomInit == Init /\ max_cache_size = MaxCacheSize

\* An analysis is called once, on inputs drawn here.
NotCalled == tel_call = "none"

DomNext ==
    \/ /\ NotCalled
       /\ \E list \in LapInputs, n \in 1..MaxSectors, st \in {"distance", "speed"} :
             FindFastestDrivers(DriverOrder, list, n, st)
             /\ UNCHANGED <<cacheVars, threadVars, batchVars, moreVars>>
    \/ /\ NotCalled
       /\ \E laps \in LapInputs, n \in 1..MaxSectors :
             GetTrackDominanceData(DriverOrder, {}, laps, n)
             /\ UNCHANGED <<cacheVars, threadVars, batchVars, moreVars>>
    \/ /\ NotCalled
       /\ \E laps \in LapInputs, n \in 1..MaxSectors :
             CreateTrackDominancePlot(DriverOrder, {}, laps, n)
             /\ UNCHANGED <<cacheVars, threadVars, batchVars, moreVars>>

DomSpec == DomInit /\ [][DomNext]_vars

\* The laps of the drivers of a list.
LapsOf(order, laps) == [d \in Codes(order) |-> laps[d]]

OrderNext ==
    \/ /\ NotCalled
       /\ \E order \in DriverLists, laps \in ShortLapInputs, n \in 1..MaxSectors,
             st \in SectorTypes :
             FindFastestDrivers(order, LapsOf(order, laps), n, st)
             /\ UNCHANGED <<cacheVars, threadVars, batchVars, moreVars>>
    \/ /\ NotCalled
       /\ \E req \in DriverLists, unavail \in SUBSET Drivers, laps \in ShortLapInputs,
             n \in 1..MaxSectors :
             GetTrackDominanceData(req, unavail, laps, n)
             /\ UNCHANGED <<cacheVars, threadVars, batchVars, moreVars>>
    \/ /\ NotCalled
       /\ \E req \in DriverLists, unavail \in SUBSET Drivers, laps \in ShortLapInputs,
             n \in 1..MaxSectors :
             CreateTrackDominancePlot(req, unavail, laps, n)
             /\ UNCHANGED <<cacheVars, threadVars, batchVars, moreVars>>
    \/ /\ NotCalled
       /\ \E order \in DriverLists, laps \in ShortLapInputs, n \in 1..MaxSectors,
             st \in {"distance", "time"} :
             MiniSectorsExample(order, LapsOf(order, laps), n, st)
             /\ UNCHANGED <<cacheVars, threadVars, batchVars, moreVars>>

OrderSpec == DomInit /\ [][OrderNext]_vars

PoolFrame == UNCHANGED <<threadVars, batch, elapsed, telVars,
                         response, event, color, schedVars>>

PoolNext ==
    \/ \E t \in Threads, k \in CacheKeys, r \in 1..MaxRetry :
          PoolCacheSession(t, k, r) /\ PoolFrame
    \/ \E t \in Threads : PoolCheck(t) /\ PoolFrame
    \/ \E t \in Threads : PoolNewType(t) /\ PoolFrame
    \/ \E t \in Threads : PoolLoadCounter(t) /\ PoolFrame
    \/ \E t \in Threads : PoolStoreCounter(t) /\ PoolFrame
    \/ \E t \in Threads : PoolLoadReturns(t) /\ PoolFrame
    \/ \E t \in Threads : PoolLoadRaises(t) /\ PoolFrame

PoolSpec == Init /\ [][PoolNext]_vars

EventFrame == UNCHANGED <<cacheVars, threadVars, batchVars, telVars,
                          response, workers, color, schedVars>>

EventNext ==
    \/ /\ event.pc = "idle"
       /\ \E sessions \in SessionLists, prioritize \in BOOLEAN :
             CacheEvent(sessions, prioritize) /\ EventFrame
    \/ /\ event.pc = "idle"
       /\ \E sessions \in SessionLists, prioritize \in BOOLEAN :
             UpdateEvent(sessions, prioritize) /\ EventFrame
    \/ EventNextSession /\ EventFrame
    \/ EventReturn /\ EventFrame

EventSpec == Init /\ [][EventNext]_vars

ColorFrame == UNCHANGED <<cacheVars, threadVars, batchVars, telVars,
                          response, workers, event, schedVars>>

ColorNext ==
    \/ \E c \in DriverCodes, session \in BOOLEAN,
          m \in MappingOutcomes, l \in LegacyOutcomes :
          get_driver_color(c, session, m, l) /\ ColorFrame
    \/ \E n \in TeamNames, session \in BOOLEAN,
          m \in MappingOutcomes, l \in LegacyOutcomes :
          get_team_color(n, session, m, l) /\ ColorFrame

ColorSpec == Init /\ [][ColorNext]_vars

SchedFrame == UNCHANGED <<cacheVars, threadVars, batchVars, telVars,
                          response, workers, event, color>>

SchedNext ==
    \/ \E year \in Years : GetScheduleCached(year) /\ SchedFrame
    \/ \E year \in Years : GetScheduleFetch(year) /\ SchedFrame
    \/ \E year \in Years : GetScheduleFetchRaises(year) /\ SchedFrame
    \/ \E d \in ClockSteps : ClockAdvances(d) /\ SchedFrame

SchedSpec == Init /\ [][SchedNext]_vars

====
